---- MODULE Spec2Model ----
(***************************************************************************)
(* Model of the book-management backend: the Categories / Books /          *)
(* Keywords tables with their join tables, and the request handlers of     *)
(* the category and book controllers.                                      *)
(*                                                                         *)
(* Spec        category handlers, each run to completion                   *)
(* SpecStore   category and book handlers on one database                  *)
(* SpecConc    updateCategory requests interleave at their awaits          *)
(* SpecTrav    the descendant traversal run query by query on any store    *)
(* SpecSeeded  one request, with or without a failing storage operation    *)
(* SpecList    getAllCategories on every forest of named categories        *)
(* SpecPrice   formatPrice and parsePrice on prices in cents               *)
(* SpecRename  updateCategory requests on every forest of named categories *)
(* SpecFilter  the filter fields of a list page: keystrokes, timers, fetches *)
(* SpecBulk    deleteManyBooks requests on databases of several books       *)
(***************************************************************************)
EXTENDS Integers, Sequences, FiniteSets, TLC

VARIABLES cats, nextId, books, nextBookId, keywords, nextKeywordId,
          bookCategories, bookKeywords, last, procs, walk, ui

vars == <<cats, nextId, books, nextBookId, keywords, nextKeywordId,
          bookCategories, bookKeywords, last, procs, walk, ui>>

dbVars == <<cats, nextId, books, nextBookId, keywords, nextKeywordId,
            bookCategories, bookKeywords>>

bookVars == <<books, nextBookId, keywords, nextKeywordId,
              bookCategories, bookKeywords>>

(* ---------------------------- bounds ---------------------------------- *)

\* largest category id the auto-increment counter may hand out
MaxId == 3
\* largest id that request bodies also send as a digit string
MaxStrId == 1
\* largest book id
MaxBookId == 1
\* largest keyword id
MaxKeywordId == 1
\* longest categories / keywords array in a book request body
MaxItems == 1
\* categories in the initial stores of SpecConc
ConcIds == 3
\* concurrent updateCategory requests in SpecConc
NumProcs == 2
\* categories in the stores of SpecTrav
TravIds == 4
\* a traversal is followed until it has collected this many ids
MaxVisit == 6
\* largest fraction, in cents, of the prices of SpecPrice
MaxFraction == 99
\* categories in the stores of SpecList
ListIds == 4
\* categories in the seeded databases of SpecSeeded
SeedCategories == 2
\* longest categories / keywords / ids array in a request of SpecSeeded
SeedItems == 2

\* categories in the stores of SpecRename
RenameIds == 3

\* filter changes a list page receives in SpecFilter
MaxKeys == 4

\* books in the databases of SpecBulk, and longest ids array sent to them
BulkBooks == 3

(* ------------------------ JavaScript values --------------------------- *)

\* SQL NULL in an integer column; ids start at 1
NULL == 0

\* the result of parseInt on something that is not a number
NaN == -1

Undef == [t |-> "undef", n |-> 0, s |-> ""]
Null == [t |-> "null", n |-> 0, s |-> ""]
Num(n) == [t |-> "num", n |-> n, s |-> ""]
\* a string made of the decimal digits of n
NumStr(n) == [t |-> "numstr", n |-> n, s |-> ""]
\* a string that is not numeric, or the empty string
Str(s) == [t |-> "str", n |-> 0, s |-> s]

\* JavaScript truthiness: undefined, null, 0 and "" are falsy
Truthy(v) ==
  CASE v.t = "undef" -> FALSE
    [] v.t = "null" -> FALSE
    [] v.t = "num" -> v.n # 0
    [] v.t = "numstr" -> TRUE
    [] v.t = "str" -> v.s # ""

\* parseInt(v): the integer a number or a digit string denotes
parseInt(v) ==
  IF v.t \in {"num", "numstr"} THEN v.n ELSE NaN

\* isNaN(v): Number(v) is NaN; Number("") and Number(null) are 0
isNaN(v) ==
  CASE v.t = "undef" -> TRUE
    [] v.t = "null" -> FALSE
    [] v.t = "num" -> FALSE
    [] v.t = "numstr" -> FALSE
    [] v.t = "str" -> v.s # ""

(* ------------------------------ helpers -------------------------------- *)

Min(S) == CHOOSE x \in S : \A y \in S : x <= y

RECURSIVE SetToSeq(_)
\* the elements of a set of integers in ascending order
SetToSeq(S) ==
  IF S = {} THEN <<>>
  ELSE LET m == Min(S) IN <<m>> \o SetToSeq(S \ {m})

Range(f) == {f[x] : x \in DOMAIN f}

NoDuplicates(q) == \A i, j \in 1..Len(q) : q[i] = q[j] => i = j

(* -------------------------- Category model ----------------------------- *)

\* Category.findByPk(pk): the id of the row, NULL when there is none
CategoryFindByPk(store, pk) ==
  IF parseInt(pk) \in DOMAIN store THEN parseInt(pk) ELSE NULL

\* Category.findAll({ where: { parentId } }) as the list of row ids
CategoryFindAllByParent(store, parentId) ==
  SetToSeq({c \in DOMAIN store : store[c].parentId = parentId})

\* a model without validation of the name
CategoryNameValidAny(name) == TRUE

\* model validation of Category.name: allowNull false, notEmpty
CategoryNameValid(name) == name.t = "str" /\ name.s # ""

RECURSIVE AncestorsFrom(_, _, _)
\* the ids met walking parentId links from id, at most fuel links
AncestorsFrom(store, id, fuel) ==
  IF fuel = 0 \/ id \notin DOMAIN store \/ store[id].parentId = NULL THEN {}
  ELSE {store[id].parentId}
         \cup AncestorsFrom(store, store[id].parentId, fuel - 1)

\* every id reachable from id by one or more parentId links
Ancestors(store, id) == AncestorsFrom(store, id, Cardinality(DOMAIN store))

\* the categories that have id among their ancestors
Descendants(store, id) ==
  {c \in DOMAIN store : id \in Ancestors(store, c)}

\* no category is reached from itself by parentId links
Acyclic(store) == \A c \in DOMAIN store : c \notin Ancestors(store, c)

\* the rows the foreign key on parentId removes along with id
CascadeSet(store, id) == {id} \cup Descendants(store, id)

(* ------------------ findAllChildrenIds, query by query ----------------- *)

\* findAllChildrenIds(categoryId) before its first query
TravInit(categoryId) ==
  [call |-> categoryId, stack |-> <<>>, childIds |-> <<>>]

TravDone(tr) == tr.call = NULL

RECURSIVE Unwind(_)
\* return from every findChildren call whose for loop is exhausted
Unwind(stack) ==
  IF stack = <<>> THEN <<>>
  ELSE IF Head(stack) = <<>> THEN Unwind(Tail(stack))
  ELSE stack

\* a findChildren that pushes the direct children and never recurses
findChildrenShallow(store, tr) ==
  [call |-> NULL, stack |-> <<>>,
   childIds |-> tr.childIds \o CategoryFindAllByParent(store, tr.call)]

\* one findChildren(parentId) call up to the next await: the findAll, then
\* the loop pushes the next child id and calls findChildren on it
findChildren(store, tr) ==
  LET children == CategoryFindAllByParent(store, tr.call)
      stack == Unwind(<<children>> \o tr.stack)
  IN IF stack = <<>>
       THEN [call |-> NULL, stack |-> <<>>, childIds |-> tr.childIds]
       ELSE LET child == Head(Head(stack))
            IN [call |-> child,
                stack |-> <<Tail(Head(stack))>> \o Tail(stack),
                childIds |-> Append(tr.childIds, child)]

RECURSIVE RunTrav(_, _)
RunTrav(store, tr) ==
  IF TravDone(tr) THEN tr.childIds
  ELSE RunTrav(store, findChildren(store, tr))

\* findAllChildrenIds(categoryId) run to completion on one store
findAllChildrenIds(store, categoryId) ==
  RunTrav(store, TravInit(categoryId))

(* ----------------------- category controller --------------------------- *)

\* an array field of a request body: absent, the list of its items, or a
\* truthy value that is not an array
Absent == [given |-> FALSE, array |-> FALSE, items |-> <<>>]
List(items) == [given |-> TRUE, array |-> TRUE, items |-> items]
NotArray == [given |-> TRUE, array |-> FALSE, items |-> <<>>]

\* req.query of a request that is not a listing
NoQuery == [includeChildren |-> Undef, search |-> Undef]

\* the body of a request that is not a book request
NoBody ==
  [title |-> Undef, description |-> Undef, price |-> Undef, stock |-> Undef,
   publisher |-> Undef, categories |-> Absent, keywords |-> Absent]

\* the last request and its response: the operation, req.params.id as an
\* integer, the body's name and parentId, the HTTP status (0 when no
\* response is sent), data.affectedChildCategories, the category ids the
\* request removed, the body of a book request, the ids of a bulk delete,
\* the calls made on the transaction, the storage operation that failed,
\* the number of join rows the request removed, the query string of a
\* listing, the number a price function returned, in cents, and the data
\* of the response
Response(op, id, name, parentId, status, affected) ==
  [op |-> op, id |-> id, name |-> name, parentId |-> parentId,
   status |-> status, affected |-> affected, removed |-> {},
   body |-> NoBody, ids |-> Absent, txn |-> <<>>, fault |-> "none",
   unlinked |-> 0, query |-> NoQuery, price |-> 0, data |-> <<>>]

NoResponse == Response("none", 0, Undef, Undef, 0, 0)

\* parentId || null, as the integer column stores it
ParentColumn(parentId) ==
  IF Truthy(parentId) THEN parseInt(parentId) ELSE NULL

\* a create that stores every new category as a root
CategoryCreateAsRoot(store, id, name, parentId) ==
  [c \in DOMAIN store \cup {id} |->
     IF c = id THEN [name |-> name, parentId |-> NULL] ELSE store[c]]

\* Category.create({ name, parentId }) with the id the counter hands out
CategoryCreate(store, id, name, parentId) ==
  [c \in DOMAIN store \cup {id} |->
     IF c = id THEN [name |-> name, parentId |-> parentId] ELSE store[c]]

\* a self-parent test that compares the raw values, string against number
SelfParentStrict(id, parentId) == id = parentId

\* parseInt(id) === parseInt(parentId)
SelfParent(id, parentId) == parseInt(id) = parseInt(parentId)

\* a circular-reference test that never fires
CircularReferenceNever(childCategories, parentId) == FALSE

\* childCategories.includes(parseInt(parentId))
CircularReference(childCategories, parentId) ==
  \E i \in 1..Len(childCategories) : childCategories[i] = parseInt(parentId)

\* an updateData that always holds parentId
UpdateDataWhole(row, name, parentId) ==
  [name |-> IF name # Undef THEN name ELSE Str(row.name),
   parentId |-> ParentColumn(parentId)]

\* updateData: only the fields the body holds are replaced
UpdateData(row, name, parentId) ==
  [name |-> IF name # Undef THEN name ELSE Str(row.name),
   parentId |-> IF parentId # Undef THEN ParentColumn(parentId)
                ELSE row.parentId]

\* an update that writes the name and never the parentId
InstanceUpdateNameOnly(store, id, loaded, data) ==
  IF id \notin DOMAIN store THEN store
  ELSE [store EXCEPT ![id].name = IF data.name.s # loaded.name
                                    THEN data.name.s ELSE @]

\* category.update(updateData): the attributes that differ from the ones
\* the instance was loaded with are written, WHERE id; a row deleted in
\* the meantime is not written
InstanceUpdate(store, id, loaded, data) ==
  IF id \notin DOMAIN store THEN store
  ELSE [store EXCEPT ![id] =
          [name |-> IF data.name.s # loaded.name THEN data.name.s
                    ELSE store[id].name,
           parentId |-> IF data.parentId # loaded.parentId
                          THEN data.parentId
                          ELSE store[id].parentId]]

\* a destroy that removes the one row and nothing below it
CategoryDestroyRowOnly(store, id) ==
  [c \in DOMAIN store \ {id} |-> store[c]]

\* category.destroy(): the row goes, and ON DELETE CASCADE on parentId
\* removes every row below it
CategoryDestroy(store, id) ==
  [c \in DOMAIN store \ CascadeSet(store, id) |-> store[c]]

\* ON DELETE CASCADE on the categoryId of a join table
JoinRowsAfterDestroy(rows, store) == {r \in rows : r[2] \in DOMAIN store}

\* a create that does not look at the name
NameMissingNever(name) == FALSE

\* !name
NameMissing(name) == ~Truthy(name)

\* a parent check that accepts every parentId
ParentMissingNever(store, parentId) == FALSE

\* if (parentId) { ... findByPk(parentId); if (!parentCategory) ... }
ParentMissing(store, parentId) ==
  Truthy(parentId) /\ CategoryFindByPk(store, parentId) = NULL

\* POST /api/categories
createCategory(name, parentId) ==
  IF NameMissing(name)
    THEN /\ last' = Response("createCategory", 0, name, parentId, 400, 0)
         /\ UNCHANGED dbVars
  ELSE IF ParentMissing(cats, parentId)
    THEN /\ last' = Response("createCategory", 0, name, parentId, 404, 0)
         /\ UNCHANGED dbVars
  ELSE IF ~CategoryNameValid(name)
    THEN /\ last' = Response("createCategory", 0, name, parentId, 500, 0)
         /\ UNCHANGED dbVars
  ELSE /\ nextId <= MaxId
       /\ cats' = CategoryCreate(cats, nextId, name.s, ParentColumn(parentId))
       /\ nextId' = nextId + 1
       /\ last' = Response("createCategory", nextId, name, parentId, 201, 0)
       /\ UNCHANGED bookVars

\* an update that never looks its parentId up
UpdateCategoryStatusNoParent(store, id, name, parentId) ==
  IF CategoryFindByPk(store, id) = NULL THEN 404
  ELSE IF ~CategoryNameValid(UpdateData(store[parseInt(id)], name,
                                        parentId).name)
    THEN 500
  ELSE 200

\* the status updateCategory answers with, 200 when it goes on to write
UpdateCategoryStatus(store, id, name, parentId) ==
  IF CategoryFindByPk(store, id) = NULL THEN 404
  ELSE IF ParentMissing(store, parentId) THEN 404
  ELSE IF Truthy(parentId) /\ SelfParent(id, parentId) THEN 400
  ELSE IF Truthy(parentId)
          /\ CircularReference(findAllChildrenIds(store, parseInt(id)),
                               parentId)
    THEN 400
  ELSE IF ~CategoryNameValid(UpdateData(store[parseInt(id)], name,
                                        parentId).name)
    THEN 500
  ELSE 200

\* PUT /api/categories/:id
updateCategory(id, name, parentId) ==
  LET status == UpdateCategoryStatus(cats, id, name, parentId)
  IN /\ cats' = IF status = 200
                  THEN InstanceUpdate(cats, parseInt(id), cats[parseInt(id)],
                         UpdateData(cats[parseInt(id)], name, parentId))
                  ELSE cats
     /\ last' = Response("updateCategory", parseInt(id), name, parentId,
                         status, 0)
     /\ UNCHANGED <<nextId, bookVars>>

\* childCategories.length for findAll({ where: { parentId: id } })
AffectedChildCategories(store, id) ==
  Len(CategoryFindAllByParent(store, id))

\* the tables and auto-increment counters as one value
DB ==
  [cats |-> cats, nextId |-> nextId, books |-> books,
   nextBookId |-> nextBookId, keywords |-> keywords,
   nextKeywordId |-> nextKeywordId, bookCategories |-> bookCategories,
   bookKeywords |-> bookKeywords]

\* transaction.rollback(): the rows are restored; the ids the auto-increment
\* counters handed out inside the transaction stay used (dialect mysql)
Rollback(before, now) ==
  [before EXCEPT !.nextId = now.nextId, !.nextBookId = now.nextBookId,
                 !.nextKeywordId = now.nextKeywordId]

\* the storage operations of a handler that may fail: the lookup it starts
\* with, its write (create, update, destroy), setCategories, setKeywords,
\* and the findByPk that reads the book back after commit
Faults == {"find", "write", "setCategories", "setKeywords", "readBack"}

\* how a handler ends: the tables, the HTTP status (0 when no response is
\* sent), the calls made on the transaction, the operation that failed
Outcome(db, status, txn, fault) ==
  [db |-> db, status |-> status, txn |-> txn, fault |-> fault]

\* catch (error) { await transaction.rollback(); ... res.status(500) }:
\* before commit the rows are restored; on a transaction that commit has
\* finished rollback() throws, the rows stay and no response is sent
Catch(before, now, committed, fault) ==
  IF committed THEN Outcome(now, 0, <<"commit", "rollback">>, fault)
  ELSE Outcome(Rollback(before, now), 500, <<"rollback">>, fault)

\* a delete that does not look the category up first
DeleteCategoryResultNoLookup(db, id, fault) ==
  LET after == CategoryDestroy(db.cats, parseInt(id))
  IN Outcome([db EXCEPT !.cats = after,
                        !.bookCategories =
                          JoinRowsAfterDestroy(db.bookCategories, after)],
             200, <<"commit">>, "none")

\* DELETE /api/categories/:id: the tables and the status afterwards
DeleteCategoryResult(db, id, fault) ==
  IF fault = "find" THEN Catch(db, db, FALSE, fault)
  ELSE IF CategoryFindByPk(db.cats, id) = NULL
    THEN Outcome(db, 404, <<"rollback">>, "none")
  ELSE IF fault = "write" THEN Catch(db, db, FALSE, fault)
  ELSE LET after == CategoryDestroy(db.cats, parseInt(id))
       IN Outcome([db EXCEPT !.cats = after,
                             !.bookCategories =
                               JoinRowsAfterDestroy(db.bookCategories,
                                                    after)],
                  200, <<"commit">>, "none")

\* the tables and counters take the values of a result
Store(db) ==
  /\ cats' = db.cats
  /\ nextId' = db.nextId
  /\ books' = db.books
  /\ nextBookId' = db.nextBookId
  /\ keywords' = db.keywords
  /\ nextKeywordId' = db.nextKeywordId
  /\ bookCategories' = db.bookCategories
  /\ bookKeywords' = db.bookKeywords

\* the join rows of before that after no longer holds
Unlinked(before, after) ==
  Cardinality(before.bookCategories \ after.bookCategories)
    + Cardinality(before.bookKeywords \ after.bookKeywords)

\* DELETE /api/categories/:id
deleteCategory(id, fault) ==
  LET r == DeleteCategoryResult(DB, id, fault)
  IN /\ Store(r.db)
     /\ last' = [Response("deleteCategory", parseInt(id), Undef, Undef,
                          r.status,
                          IF r.status = 200
                            THEN AffectedChildCategories(cats, parseInt(id))
                            ELSE 0)
                  EXCEPT !.removed = DOMAIN cats \ DOMAIN r.db.cats,
                         !.txn = r.txn, !.fault = r.fault,
                         !.unlinked = Unlinked(DB, r.db)]

(* --------------------------- book controller --------------------------- *)

\* parsePrice(price) for a number or a plain digit string
parsePrice(price) ==
  IF ~Truthy(price) THEN 0
  ELSE IF price.t \in {"num", "numstr"} THEN price.n
  ELSE NaN

\* Book model validation: notEmpty texts, price and stock numbers >= 0
BookTextValid(v) == v.t = "str" /\ v.s # ""
BookPriceValid(n) == n # NaN /\ n >= 0
BookStockValid(v) == v.t \in {"num", "numstr"} /\ v.n >= 0

\* Keyword.findByPk(pk)
KeywordFindByPk(store, pk) ==
  IF parseInt(pk) \in DOMAIN store THEN parseInt(pk) ELSE NULL

\* Category.findOrCreate({ where: { name } }): the first row of that name,
\* or a new root row; out is [db, id]
CategoryFindOrCreate(db, name) ==
  LET found == {c \in DOMAIN db.cats : db.cats[c].name = name}
  IN IF found # {}
       THEN [db |-> db, id |-> Min(found)]
       ELSE [db |-> [db EXCEPT !.cats = CategoryCreate(db.cats, db.nextId,
                                                    name, NULL),
                               !.nextId = db.nextId + 1],
             id |-> db.nextId]

\* Keyword.findOrCreate({ where: { name } }); Keyword.name is unique
KeywordFindOrCreate(db, name) ==
  LET found == {k \in DOMAIN db.keywords : db.keywords[k].name = name}
  IN IF found # {}
       THEN [db |-> db, id |-> Min(found)]
       ELSE [db |-> [db EXCEPT
                       !.keywords = [k \in DOMAIN db.keywords
                                           \cup {db.nextKeywordId} |->
                                       IF k = db.nextKeywordId
                                         THEN [name |-> name]
                                         ELSE db.keywords[k]],
                       !.nextKeywordId = db.nextKeywordId + 1],
             id |-> db.nextKeywordId]

\* typeof item === 'number' || !isNaN(item)
IsIdItem(item) == item.t = "num" \/ ~isNaN(item)

\* typeof item === 'string'
IsStringItem(item) == item.t \in {"str", "numstr"}

RECURSIVE ProcessCategories(_, _)
\* the for loop over categories; st is [db, ids, status], status 0 while
\* no response has been sent
ProcessCategories(items, st) ==
  IF items = <<>> \/ st.status # 0 THEN st
  ELSE LET item == Head(items)
       IN IF IsIdItem(item)
            THEN LET category == CategoryFindByPk(st.db.cats, item)
                 IN IF category = NULL
                      THEN [st EXCEPT !.status = 404]
                      ELSE ProcessCategories(Tail(items),
                             [st EXCEPT !.ids = Append(@, category)])
          ELSE IF IsStringItem(item)
            THEN LET r == CategoryFindOrCreate(st.db, item.s)
                 IN ProcessCategories(Tail(items),
                      [st EXCEPT !.db = r.db, !.ids = Append(@, r.id)])
          ELSE ProcessCategories(Tail(items), st)

RECURSIVE ProcessKeywords(_, _)
\* the for loop over keywords
ProcessKeywords(items, st) ==
  IF items = <<>> \/ st.status # 0 THEN st
  ELSE LET item == Head(items)
       IN IF IsIdItem(item)
            THEN LET keyword == KeywordFindByPk(st.db.keywords, item)
                 IN IF keyword = NULL
                      THEN [st EXCEPT !.status = 404]
                      ELSE ProcessKeywords(Tail(items),
                             [st EXCEPT !.ids = Append(@, keyword)])
          ELSE IF IsStringItem(item)
            THEN LET r == KeywordFindOrCreate(st.db, item.s)
                 IN ProcessKeywords(Tail(items),
                      [st EXCEPT !.db = r.db, !.ids = Append(@, r.id)])
          ELSE ProcessKeywords(Tail(items), st)

\* the ids of ids that the book is not yet associated with
Unassociated(rows, bookId, ids) ==
  SelectSeq(ids, LAMBDA x : <<bookId, x>> \notin rows)

\* book.setCategories(ids) / book.setKeywords(ids) on a join table with a
\* unique (bookId, otherId) constraint: inserting one pair twice fails
SetAssociations(rows, bookId, ids) ==
  IF ~NoDuplicates(Unassociated(rows, bookId, ids))
    THEN [status |-> 500, rows |-> rows]
    ELSE [status |-> 0,
          rows |-> {r \in rows : r[1] # bookId}
                     \cup {<<bookId, ids[i]>> : i \in 1..Len(ids)}]

\* the categories part of createBook / updateBook; st is [db, status]
ApplyCategories(st, bookId, items) ==
  IF st.status # 0 THEN st
  ELSE LET p == ProcessCategories(items,
                  [db |-> st.db, ids |-> <<>>, status |-> 0])
       IN IF p.status # 0 THEN [db |-> p.db, status |-> p.status]
          ELSE LET a == SetAssociations(p.db.bookCategories, bookId, p.ids)
               IN [db |-> [p.db EXCEPT !.bookCategories = a.rows],
                   status |-> a.status]

\* the keywords part of createBook / updateBook
ApplyKeywords(st, bookId, items) ==
  IF st.status # 0 THEN st
  ELSE LET p == ProcessKeywords(items,
                  [db |-> st.db, ids |-> <<>>, status |-> 0])
       IN IF p.status # 0 THEN [db |-> p.db, status |-> p.status]
          ELSE LET a == SetAssociations(p.db.bookKeywords, bookId, p.ids)
               IN [db |-> [p.db EXCEPT !.bookKeywords = a.rows],
                   status |-> a.status]

\* the for loop over categories on its own, from an empty id list
CategoriesLoop(db, items) ==
  ProcessCategories(items, [db |-> db, ids |-> <<>>, status |-> 0])

\* the for loop over keywords on its own
KeywordsLoop(db, items) ==
  ProcessKeywords(items, [db |-> db, ids |-> <<>>, status |-> 0])

\* the handler from the categories on: st is [db, status] after the book
\* row is written, ok the status of success; a response sent before
\* commit (404) and an error thrown before commit (500) roll back, an
\* error thrown by the read after commit finds the transaction finished
AfterWrite(before, st, bookId, body, doCategories, doKeywords, fault, ok) ==
  LET cl == CategoriesLoop(st.db, body.categories.items)
      c == IF doCategories
             THEN ApplyCategories(st, bookId, body.categories.items)
             ELSE st
      kl == KeywordsLoop(c.db, body.keywords.items)
      k == IF doKeywords
             THEN ApplyKeywords(c, bookId, body.keywords.items)
             ELSE c
  IN IF doCategories /\ cl.status # 0
       THEN Outcome(Rollback(before, cl.db), cl.status, <<"rollback">>,
                    "none")
     ELSE IF doCategories /\ fault = "setCategories"
       THEN Catch(before, cl.db, FALSE, fault)
     ELSE IF c.status # 0 THEN Catch(before, c.db, FALSE, "none")
     ELSE IF doKeywords /\ kl.status # 0
       THEN Outcome(Rollback(before, kl.db), kl.status, <<"rollback">>,
                    "none")
     ELSE IF doKeywords /\ fault = "setKeywords"
       THEN Catch(before, kl.db, FALSE, fault)
     ELSE IF k.status # 0 THEN Catch(before, k.db, FALSE, "none")
     ELSE IF fault = "readBack" THEN Catch(before, k.db, TRUE, fault)
     ELSE Outcome(k.db, ok, <<"commit">>, "none")

\* POST /api/books: the status and the tables afterwards
CreateBookResult(db, body, fault) ==
  IF \/ ~Truthy(body.title) \/ ~Truthy(body.description)
     \/ ~Truthy(body.price) \/ body.stock = Undef \/ ~Truthy(body.publisher)
    THEN Outcome(db, 400, <<"rollback">>, "none")
  ELSE IF fault = "write" THEN Catch(db, db, FALSE, fault)
  ELSE IF \/ ~BookTextValid(body.title) \/ ~BookTextValid(body.description)
          \/ ~BookPriceValid(parsePrice(body.price))
          \/ ~BookStockValid(body.stock) \/ ~BookTextValid(body.publisher)
    THEN Catch(db, db, FALSE, "none")
  ELSE LET id == db.nextBookId
           row == [title |-> body.title.s,
                   description |-> body.description.s,
                   price |-> parsePrice(body.price),
                   stock |-> body.stock.n,
                   publisher |-> body.publisher.s]
           created ==
             [db EXCEPT !.books = [b \in DOMAIN db.books \cup {id} |->
                                     IF b = id THEN row ELSE db.books[b]],
                        !.nextBookId = id + 1]
       IN AfterWrite(db, [db |-> created, status |-> 0], id, body,
                     Len(body.categories.items) > 0,
                     Len(body.keywords.items) > 0, fault, 201)

\* the row book.update(updateData) writes: the fields the body holds
BookUpdateData(row, body) ==
  [title |-> IF body.title # Undef THEN body.title ELSE Str(row.title),
   description |-> IF body.description # Undef THEN body.description
                   ELSE Str(row.description),
   price |-> IF body.price # Undef THEN parsePrice(body.price)
             ELSE row.price,
   stock |-> IF body.stock # Undef THEN body.stock ELSE Num(row.stock),
   publisher |-> IF body.publisher # Undef THEN body.publisher
                 ELSE Str(row.publisher)]

\* PUT /api/books/:id: the status and the tables afterwards
UpdateBookResult(db, id, body, fault) ==
  IF fault = "find" THEN Catch(db, db, FALSE, fault)
  ELSE IF parseInt(id) \notin DOMAIN db.books
    THEN Outcome(db, 404, <<"rollback">>, "none")
  ELSE IF fault = "write" THEN Catch(db, db, FALSE, fault)
  ELSE LET b == parseInt(id)
           data == BookUpdateData(db.books[b], body)
       IN IF \/ ~BookTextValid(data.title)
             \/ ~BookTextValid(data.description)
             \/ ~BookPriceValid(data.price)
             \/ ~BookStockValid(data.stock)
             \/ ~BookTextValid(data.publisher)
            THEN Catch(db, db, FALSE, "none")
          ELSE LET updated ==
                     [db EXCEPT !.books[b] =
                        [title |-> data.title.s,
                         description |-> data.description.s,
                         price |-> data.price,
                         stock |-> data.stock.n,
                         publisher |-> data.publisher.s]]
               IN AfterWrite(db, [db |-> updated, status |-> 0], b, body,
                             body.categories.given, body.keywords.given,
                             fault, 200)

\* a destroy that leaves the join rows of the books behind
BookDestroyRowsOnly(db, ids) ==
  [db EXCEPT !.books = [b \in DOMAIN db.books \ ids |-> db.books[b]]]

\* book.destroy() / Book.destroy({ where }): the rows go, and ON DELETE
\* CASCADE on bookId removes their rows of both join tables
BookDestroy(db, ids) ==
  [db EXCEPT !.books = [b \in DOMAIN db.books \ ids |-> db.books[b]],
             !.bookCategories = {r \in db.bookCategories : r[1] \notin ids},
             !.bookKeywords = {r \in db.bookKeywords : r[1] \notin ids}]

\* DELETE /api/books/:id, without a transaction: the status and the
\* tables afterwards
DeleteBookResult(db, id) ==
  IF parseInt(id) \notin DOMAIN db.books THEN Outcome(db, 404, <<>>, "none")
  ELSE Outcome(BookDestroy(db, {parseInt(id)}), 200, <<>>, "none")

\* a where clause that selects every book
BookIdsInAny(store, ids) == DOMAIN store

\* where: { id: { [Op.in]: ids } }
BookIdsIn(store, ids) ==
  {b \in DOMAIN store : \E i \in 1..Len(ids) : parseInt(ids[i]) = b}

\* POST /api/books/batch/delete: the status and the tables afterwards
DeleteManyBooksResult(db, ids, fault) ==
  IF ~ids.given \/ ~ids.array \/ Len(ids.items) = 0
    THEN Outcome(db, 400, <<"rollback">>, "none")
  ELSE IF fault = "find" THEN Catch(db, db, FALSE, fault)
  ELSE IF BookIdsIn(db.books, ids.items) = {}
    THEN Outcome(db, 404, <<"rollback">>, "none")
  ELSE IF fault = "write" THEN Catch(db, db, FALSE, fault)
  ELSE Outcome(BookDestroy(db, BookIdsIn(db.books, ids.items)), 200,
               <<"commit">>, "none")

\* data of the answer of deleteManyBooks: existingBooks are the rows found
\* before the destroy, in id order, deletedCount the rows Book.destroy
\* removed
DeleteManyBooksData(db, after, ids) ==
  LET deletedIds == SetToSeq(BookIdsIn(db.books, ids.items))
  IN [deletedCount |-> Cardinality(DOMAIN db.books \ DOMAIN after.books),
      deletedIds |-> deletedIds,
      notFoundIds |-> SelectSeq(ids.items,
                        LAMBDA id : parseInt(id) \notin Range(deletedIds))]

\* the auto-increment counters stay within the modelled id ranges
WithinBounds(db) ==
  /\ db.nextId <= MaxId + 1
  /\ db.nextBookId <= MaxBookId + 1
  /\ db.nextKeywordId <= MaxKeywordId + 1

\* the response of a book handler that ended as r
BookResponse(op, id, body, ids, r) ==
  [Response(op, id, Undef, Undef, r.status, 0)
     EXCEPT !.body = body, !.ids = ids, !.txn = r.txn, !.fault = r.fault,
            !.unlinked = Unlinked(DB, r.db)]

createBook(body, fault) ==
  LET r == CreateBookResult(DB, body, fault)
  IN /\ Store(r.db)
     /\ last' = BookResponse("createBook", 0, body, Absent, r)

updateBook(id, body, fault) ==
  LET r == UpdateBookResult(DB, id, body, fault)
  IN /\ Store(r.db)
     /\ last' = BookResponse("updateBook", parseInt(id), body, Absent, r)

deleteBook(id) ==
  LET r == DeleteBookResult(DB, id)
  IN /\ Store(r.db)
     /\ last' = BookResponse("deleteBook", parseInt(id), NoBody, Absent, r)

deleteManyBooks(ids, fault) ==
  LET r == DeleteManyBooksResult(DB, ids, fault)
  IN /\ Store(r.db)
     /\ last' = [BookResponse("deleteManyBooks", 0, NoBody, ids, r)
                  EXCEPT !.data = IF r.status = 200
                                    THEN DeleteManyBooksData(DB, r.db, ids)
                                    ELSE <<>>]

(* ------------------- the filter fields of a list page ----------------- *)

\* BookList and CategoryList share one scheme: a change of a text field
\* starts a 500 ms timer, a change of a sort field or checkbox is applied
\* at once, and one fetch runs at a time.  Pagination is left out.

\* the fields with a debounce timer and the fields applied at once
TextFields == {"title", "publisher"}

SortFields == {"sortDir"}

FilterFields == TextFields \cup SortFields

FieldValues(name) ==
  IF name \in TextFields THEN {"", "x", "y"} ELSE {"ASC", "DESC"}

\* useState({ title: '', ..., sortDir: 'ASC' })
InitialFilters ==
  [name \in FilterFields |-> IF name \in TextFields THEN "" ELSE "ASC"]

\* what the page shows: nothing yet, the list a fetch with params
\* answered, or the error of a fetch with params
Shown(kind, params) == [kind |-> kind, params |-> params]

\* the page: filters is the state the inputs show, timers the pending
\* timeouts of each text field with the value each will apply, applied is
\* appliedFilters.current, loading is isLoadingRef.current, inflight the
\* params of the request under way; keys, runs, applies and fetches count
\* the changes received, the changes that found no timer pending, the
\* timers that fired and the requests sent; event and field name the last
\* step
NoUi ==
  [mounted |-> FALSE, filters |-> InitialFilters,
   timers |-> [name \in TextFields |-> <<>>], applied |-> InitialFilters,
   loading |-> FALSE, inflight |-> InitialFilters,
   shown |-> Shown("none", InitialFilters),
   keys |-> 0, runs |-> 0, applies |-> 0, fetches |-> 0,
   event |-> "none", field |-> ""]

\* fetchBooks / fetchCategories up to its await: skipped while a request is
\* under way, else the request takes a copy of the applied filters
fetchBooks(u) ==
  IF u.loading THEN u
  ELSE [u EXCEPT !.loading = TRUE, !.inflight = u.applied,
                 !.fetches = @ + 1]

\* applyFilter(name, value)
applyFilter(u, name, value) ==
  fetchBooks([u EXCEPT !.applied[name] = value])

\* a change handler that leaves the pending timer of the field running
clearTimeoutNever(pending) == pending

\* clearTimeout(timerRef.current)
clearTimeout(pending) == <<>>

\* timerRef.current = setTimeout(() => applyFilter(name, value), 500)
setTimeout(pending, value) == Append(pending, value)

\* handleFilterChange(e) with e.target = { name, value }
handleFilterChange(u, name, value) ==
  LET typed == [u EXCEPT !.filters[name] = value, !.keys = @ + 1,
                         !.event = "change", !.field = name]
  IN IF name \in SortFields THEN applyFilter(typed, name, value)
     ELSE [typed EXCEPT
             !.runs = IF u.timers[name] = <<>> THEN @ + 1 ELSE @,
             !.timers[name] = setTimeout(clearTimeout(@), value)]

\* the callback of the oldest pending timer of a field
timerFires(u, name) ==
  applyFilter([u EXCEPT !.timers[name] = Tail(@), !.applies = @ + 1,
                        !.event = "timer", !.field = name],
              name, Head(u.timers[name]))

\* the request answers: setBooks(response.data), then finally
fetchSucceeds(u) ==
  [u EXCEPT !.shown = Shown("list", u.inflight), !.loading = FALSE,
            !.event = "response", !.field = ""]

\* the request fails: setError, setBooks([]), then finally
fetchFails(u) ==
  [u EXCEPT !.shown = Shown("error", u.inflight), !.loading = FALSE,
            !.event = "response", !.field = ""]

(* --------------------------- specification ----------------------------- *)

\* the name and parentId values request bodies carry
CreateNames == {Undef, Str(""), Str("a")}

UpdateNames == {Undef, Str(""), Str("a")}

ParentValues ==
  {Undef, Null} \cup {Num(n) : n \in 1..MaxId}
                \cup {NumStr(n) : n \in 1..MaxStrId}

\* req.params.id is always a string
IdParams == {NumStr(n) : n \in 1..MaxId}

NoWalk == [call |-> NULL, stack |-> <<>>, childIds |-> <<>>]

Init ==
  /\ cats = <<>>
  /\ nextId = 1
  /\ books = <<>>
  /\ nextBookId = 1
  /\ keywords = <<>>
  /\ nextKeywordId = 1
  /\ bookCategories = {}
  /\ bookKeywords = {}
  /\ last = NoResponse
  /\ procs = <<>>
  /\ walk = NoWalk
  /\ ui = NoUi

CreateCategoryOver(names, parents) ==
  /\ \E name \in names, parentId \in parents :
       createCategory(name, parentId)
  /\ UNCHANGED <<procs, walk, ui>>

UpdateCategoryOver(names, parents) ==
  /\ \E id \in IdParams, name \in names, parentId \in parents :
       updateCategory(id, name, parentId)
  /\ UNCHANGED <<procs, walk, ui>>

CreateCategory == CreateCategoryOver(CreateNames, ParentValues)

UpdateCategory == UpdateCategoryOver(UpdateNames, ParentValues)

DeleteCategory ==
  /\ \E id \in IdParams : deleteCategory(id, "none")
  /\ UNCHANGED <<procs, walk, ui>>

Next == CreateCategory \/ UpdateCategory \/ DeleteCategory

\* the category controller alone
Spec == Init /\ [][Next]_vars

\* category and keyword entries of a book request body
CategoryItems == {Num(1), Str(""), Str("c")}

KeywordItems == {Num(1), Str("k")}

RECURSIVE SeqsUpTo(_, _)
\* the sequences over S of length at most n
SeqsUpTo(S, n) ==
  IF n = 0 THEN {<<>>}
  ELSE LET shorter == SeqsUpTo(S, n - 1)
       IN shorter \cup {Append(q, x) : q \in shorter, x \in S}

BookBody(title, cs, ks) ==
  [title |-> title, description |-> Str("d"), price |-> Num(1),
   stock |-> Num(0), publisher |-> Str("p"),
   categories |-> cs, keywords |-> ks]

CreateBodies ==
  {BookBody(Str("t"), List(c), List(k)) :
     c \in SeqsUpTo(CategoryItems, MaxItems),
     k \in SeqsUpTo(KeywordItems, MaxItems)}

UpdateBodies ==
  {[BookBody(Undef, c, k) EXCEPT !.description = Undef, !.price = Undef,
                                 !.stock = Undef, !.publisher = Undef] :
     c \in {Absent} \cup {List(q) : q \in SeqsUpTo(CategoryItems, MaxItems)},
     k \in {Absent} \cup {List(q) : q \in SeqsUpTo(KeywordItems, MaxItems)}}

BookIdParams == {NumStr(n) : n \in 1..MaxBookId}

CreateBook ==
  /\ \E body \in CreateBodies :
       /\ WithinBounds(CreateBookResult(DB, body, "none").db)
       /\ createBook(body, "none")
  /\ UNCHANGED <<procs, walk, ui>>

UpdateBook ==
  /\ \E id \in BookIdParams, body \in UpdateBodies :
       /\ WithinBounds(UpdateBookResult(DB, id, body, "none").db)
       /\ updateBook(id, body, "none")
  /\ UNCHANGED <<procs, walk, ui>>

DeleteBook ==
  /\ \E id \in BookIdParams : deleteBook(id)
  /\ UNCHANGED <<procs, walk, ui>>

\* req.body.ids of a bulk delete
DeleteIds ==
  {Absent} \cup {List(q) : q \in SeqsUpTo({Num(n) : n \in 1..MaxBookId},
                                           MaxItems)}

DeleteManyBooks ==
  /\ \E ids \in DeleteIds : deleteManyBooks(ids, "none")
  /\ UNCHANGED <<procs, walk, ui>>

\* the category requests sent next to book requests
StoreCreateNames == {Str(""), Str("a")}

StoreUpdateNames == {Undef, Str("")}

StoreParentValues == {Undef} \cup {Num(n) : n \in 1..MaxId}

StoreCreateCategory == CreateCategoryOver(StoreCreateNames, StoreParentValues)

StoreUpdateCategory == UpdateCategoryOver(StoreUpdateNames, StoreParentValues)

NextStore ==
  \/ StoreCreateCategory \/ StoreUpdateCategory \/ DeleteCategory
  \/ CreateBook \/ UpdateBook \/ DeleteBook \/ DeleteManyBooks

\* the category and the book controller on one database
SpecStore == Init /\ [][NextStore]_vars

(* ------------- updateCategory requests that interleave ---------------- *)

Procs == 1..NumProcs

Idle ==
  [pc |-> "idle", id |-> Undef, name |-> Undef, parentId |-> Undef,
   category |-> [name |-> "", parentId |-> NULL], trav |-> NoWalk,
   status |-> 0]

\* every store of n categories named "a" whose parent relation is a forest
Forests(n) ==
  {store \in [1..n -> [name : {"a"}, parentId : 0..n]] : Acyclic(store)}

\* every store of n categories, whatever its parentId links
AnyStores(n) == [1..n -> [name : {"a"}, parentId : 0..n]]

\* a request arrives
ConcBegin(p, id, name, parentId) ==
  /\ procs[p].pc = "idle"
  /\ procs' = [procs EXCEPT ![p] = [Idle EXCEPT !.pc = "findCategory",
                                      !.id = id, !.name = name,
                                      !.parentId = parentId]]
  /\ UNCHANGED <<dbVars, last, walk, ui>>

\* await Category.findByPk(id)
ConcFindCategory(p) ==
  /\ procs[p].pc = "findCategory"
  /\ LET r == procs[p]
     IN procs' = [procs EXCEPT ![p] =
          IF CategoryFindByPk(cats, r.id) = NULL
            THEN [r EXCEPT !.pc = "done", !.status = 404]
          ELSE IF Truthy(r.parentId)
            THEN [r EXCEPT !.pc = "findParent",
                           !.category = cats[parseInt(r.id)]]
          ELSE [r EXCEPT !.pc = "update",
                         !.category = cats[parseInt(r.id)]]]
  /\ UNCHANGED <<dbVars, last, walk, ui>>

\* await Category.findByPk(parentId), then the self-parent test
ConcFindParent(p) ==
  /\ procs[p].pc = "findParent"
  /\ LET r == procs[p]
     IN procs' = [procs EXCEPT ![p] =
          IF CategoryFindByPk(cats, r.parentId) = NULL
            THEN [r EXCEPT !.pc = "done", !.status = 404]
          ELSE IF SelfParent(r.id, r.parentId)
            THEN [r EXCEPT !.pc = "done", !.status = 400]
          ELSE [r EXCEPT !.pc = "findChildren",
                         !.trav = TravInit(parseInt(r.id))]]
  /\ UNCHANGED <<dbVars, last, walk, ui>>

\* one await Category.findAll of findAllChildrenIds; after the last one
\* the circular-reference test
ConcFindChildren(p) ==
  /\ procs[p].pc = "findChildren"
  /\ Len(procs[p].trav.childIds) < MaxVisit
  /\ LET r == procs[p]
         tr == findChildren(cats, r.trav)
     IN procs' = [procs EXCEPT ![p] =
          IF ~TravDone(tr) THEN [r EXCEPT !.trav = tr]
          ELSE IF CircularReference(tr.childIds, r.parentId)
            THEN [r EXCEPT !.pc = "done", !.status = 400, !.trav = tr]
          ELSE [r EXCEPT !.pc = "update", !.trav = tr]]
  /\ UNCHANGED <<dbVars, last, walk, ui>>

\* await category.update(updateData)
ConcUpdate(p) ==
  /\ procs[p].pc = "update"
  /\ LET r == procs[p]
         data == UpdateData(r.category, r.name, r.parentId)
     IN IF ~CategoryNameValid(data.name)
          THEN /\ procs' = [procs EXCEPT ![p] =
                              [r EXCEPT !.pc = "done", !.status = 500]]
               /\ UNCHANGED cats
          ELSE /\ procs' = [procs EXCEPT ![p] =
                              [r EXCEPT !.pc = "done", !.status = 200]]
               /\ cats' = InstanceUpdate(cats, parseInt(r.id), r.category,
                                         data)
  /\ UNCHANGED <<nextId, bookVars, last, walk, ui>>

ConcIdParams == {NumStr(n) : n \in 1..ConcIds}

ConcParentValues == {Null} \cup {Num(n) : n \in 1..ConcIds}

ConcNames == {Undef, Str("b")}

InitConc ==
  /\ cats \in Forests(ConcIds)
  /\ nextId = ConcIds + 1
  /\ books = <<>>
  /\ nextBookId = 1
  /\ keywords = <<>>
  /\ nextKeywordId = 1
  /\ bookCategories = {}
  /\ bookKeywords = {}
  /\ last = NoResponse
  /\ procs = [p \in Procs |-> Idle]
  /\ walk = NoWalk
  /\ ui = NoUi

NextConc ==
  \/ \E p \in Procs, id \in ConcIdParams, name \in ConcNames,
        parentId \in ConcParentValues : ConcBegin(p, id, name, parentId)
  \/ \E p \in Procs : ConcFindCategory(p)
  \/ \E p \in Procs : ConcFindParent(p)
  \/ \E p \in Procs : ConcFindChildren(p)
  \/ \E p \in Procs : ConcUpdate(p)

\* updateCategory requests whose awaits interleave
SpecConc == InitConc /\ [][NextConc]_vars

(* ------------- one request on a database that holds a book ----------- *)

\* the book row of the seeded databases
SeedBook ==
  [title |-> "t", description |-> "d", price |-> 1, stock |-> 0,
   publisher |-> "p"]

\* the databases a request is sent to: SeedCategories categories in any
\* forest, no book or one, no keyword or the keyword "k", and any join rows
\* between the rows that exist
SeededStores ==
  {d \in [cats : Forests(SeedCategories),
          nextId : {SeedCategories + 1},
          books : {<<>>, <<SeedBook>>},
          nextBookId : {1, 2},
          keywords : {<<>>, <<[name |-> "k"]>>},
          nextKeywordId : {1, 2},
          bookCategories : SUBSET ({1} \X (1..SeedCategories)),
          bookKeywords : SUBSET {<<1, 1>>}] :
     /\ d.nextBookId = Len(d.books) + 1
     /\ d.nextKeywordId = Len(d.keywords) + 1
     /\ \A r \in d.bookCategories : r[1] \in DOMAIN d.books
     /\ \A r \in d.bookKeywords :
          r[1] \in DOMAIN d.books /\ r[2] \in DOMAIN d.keywords}

\* categories and keywords of the request bodies: stored category ids
\* and one that is not stored, a stored keyword name, a new one, and a
\* keyword id that is neither stored nor handed out by the request, as a
\* number and as a string of digits
SeededCategoryItems == {Num(n) : n \in 1..(SeedCategories + 1)}

SeededKeywordItems ==
  {Str("k"), Str("m"), Num(SeedItems + 1), NumStr(SeedItems + 1)}

SeededCreateBodies ==
  {BookBody(Str("t"), List(c), List(k)) :
     c \in SeqsUpTo(SeededCategoryItems, SeedItems),
     k \in SeqsUpTo(SeededKeywordItems, SeedItems)}

\* update bodies: each field absent or given, the associations absent or
\* a list
SeededUpdateBodies ==
  [title : {Undef, Str("u")},
   description : {Undef, Str("e")},
   price : {Undef, NumStr(2)},
   stock : {Undef, Num(5)},
   publisher : {Undef},
   categories : {Absent} \cup {List(q) : q \in SeqsUpTo({Num(1), Num(2)},
                                                        SeedItems)},
   keywords : {Absent} \cup {List(q) : q \in SeqsUpTo(SeededKeywordItems,
                                                      SeedItems)}]

SeededBookIds == {NumStr(n) : n \in 1..2}

SeededDeleteIds ==
  {Absent} \cup {List(q) : q \in SeqsUpTo({Num(1), Num(2)}, SeedItems)}

SeededCategoryIds == {NumStr(n) : n \in 1..(SeedCategories + 1)}

InitSeeded ==
  /\ \E d \in SeededStores :
       /\ cats = d.cats
       /\ nextId = d.nextId
       /\ books = d.books
       /\ nextBookId = d.nextBookId
       /\ keywords = d.keywords
       /\ nextKeywordId = d.nextKeywordId
       /\ bookCategories = d.bookCategories
       /\ bookKeywords = d.bookKeywords
  /\ last = NoResponse
  /\ procs = <<>>
  /\ walk = NoWalk
  /\ ui = NoUi

\* the request the database receives is the first one after seeding
FirstRequest == last.op = "none"

SeededCreateBook ==
  /\ FirstRequest
  /\ \E body \in SeededCreateBodies, fault \in {"none"} \cup Faults :
       createBook(body, fault)
  /\ UNCHANGED <<procs, walk, ui>>

SeededUpdateBook ==
  /\ FirstRequest
  /\ \E id \in SeededBookIds, body \in SeededUpdateBodies,
        fault \in {"none"} \cup Faults : updateBook(id, body, fault)
  /\ UNCHANGED <<procs, walk, ui>>

SeededDeleteBook ==
  /\ FirstRequest
  /\ \E id \in SeededBookIds : deleteBook(id)
  /\ UNCHANGED <<procs, walk, ui>>

SeededDeleteManyBooks ==
  /\ FirstRequest
  /\ \E ids \in SeededDeleteIds, fault \in {"none"} \cup Faults :
       deleteManyBooks(ids, fault)
  /\ UNCHANGED <<procs, walk, ui>>

SeededDeleteCategory ==
  /\ FirstRequest
  /\ \E id \in SeededCategoryIds, fault \in {"none"} \cup Faults :
       deleteCategory(id, fault)
  /\ UNCHANGED <<procs, walk, ui>>

NextSeeded ==
  \/ SeededCreateBook \/ SeededUpdateBook \/ SeededDeleteBook
  \/ SeededDeleteManyBooks \/ SeededDeleteCategory

\* one request, with or without a failing storage operation, on every
\* seeded database
SpecSeeded == InitSeeded /\ [][NextSeeded]_vars

(* ------------------------- formatPrice / parsePrice ------------------- *)

\* a price is an integer number of cents, a string a sequence of characters

DigitChars == <<"0", "1", "2", "3", "4", "5", "6", "7", "8", "9">>

DigitChar(d) == DigitChars[d + 1]

IsDigit(ch) == \E d \in 0..9 : DigitChars[d + 1] = ch

DigitValue(ch) == CHOOSE d \in 0..9 : DigitChars[d + 1] = ch

RECURSIVE DigitsOf(_)
\* the decimal digits of a natural number
DigitsOf(n) ==
  IF n < 10 THEN <<DigitChar(n)>>
  ELSE Append(DigitsOf(n \div 10), DigitChar(n % 10))

RECURSIVE GroupThousands(_)
\* id-ID grouping: a "." before every group of three digits
GroupThousands(digits) ==
  IF Len(digits) <= 3 THEN digits
  ELSE GroupThousands(SubSeq(digits, 1, Len(digits) - 3))
         \o <<".">> \o SubSeq(digits, Len(digits) - 2, Len(digits))

\* numericPrice.toLocaleString('id-ID', { minimumFractionDigits: 2,
\* maximumFractionDigits: 2 })
ToLocaleString(cents) ==
  GroupThousands(DigitsOf(cents \div 100))
    \o <<",", DigitChar((cents \div 10) % 10), DigitChar(cents % 10)>>

\* `Rp. ${...}`
formatPrice(cents) == <<"R", "p", ".", " ">> \o ToLocaleString(cents)

\* the first place sub occurs at in chars, 0 if none
IndexOf(chars, sub) ==
  LET at == {i \in 1..(Len(chars) - Len(sub) + 1) :
               SubSeq(chars, i, i + Len(sub) - 1) = sub}
  IN IF at = {} THEN 0 ELSE Min(at)

\* chars.replace(sub, by): the first occurrence only
ReplaceFirst(chars, sub, by) ==
  LET i == IndexOf(chars, sub)
  IN IF i = 0 THEN chars
     ELSE SubSeq(chars, 1, i - 1) \o by
            \o SubSeq(chars, i + Len(sub), Len(chars))

\* a replace that leaves the thousands separators in
RemoveDotsNever(chars) == chars

\* chars.replace(/\./g, '')
RemoveDots(chars) == SelectSeq(chars, LAMBDA ch : ch # ".")

RECURSIVE LeadingDigits(_)
\* the digits chars starts with
LeadingDigits(chars) ==
  IF chars = <<>> \/ ~IsDigit(Head(chars)) THEN <<>>
  ELSE <<Head(chars)>> \o LeadingDigits(Tail(chars))

RECURSIVE ValueOf(_)
\* the number a digit string denotes, 0 for the empty one
ValueOf(digits) ==
  IF digits = <<>> THEN 0
  ELSE 10 * ValueOf(SubSeq(digits, 1, Len(digits) - 1))
         + DigitValue(digits[Len(digits)])

RECURSIVE SkipSpaces(_)
SkipSpaces(chars) ==
  IF chars # <<>> /\ Head(chars) = " " THEN SkipSpaces(Tail(chars))
  ELSE chars

\* parseFloat(chars) in cents: leading blanks are skipped, then digits, then
\* "." and digits, of which two are kept; NaN when no digit is found
parseFloat(chars) ==
  LET text == SkipSpaces(chars)
      whole == LeadingDigits(text)
      rest == SubSeq(text, Len(whole) + 1, Len(text))
      frac == IF rest # <<>> /\ Head(rest) = "."
                THEN LeadingDigits(Tail(rest)) ELSE <<>>
      two == SubSeq(frac \o <<"0", "0">>, 1, 2)
  IN IF whole = <<>> /\ frac = <<>> THEN NaN
     ELSE 100 * ValueOf(whole) + ValueOf(two)

\* parsePrice(price) for a string, in cents
parsePriceText(chars) ==
  IF chars = <<>> THEN 0
  ELSE IF IndexOf(chars, <<"R", "p", ".">>) # 0
    THEN parseFloat(ReplaceFirst(
           RemoveDots(ReplaceFirst(chars, <<"R", "p", ".">>, <<>>)),
           <<",">>, <<".">>))
  ELSE parseFloat(chars)

\* the whole amounts of the prices tried, each with every fraction
Amounts == {0, 1, 12, 999, 1000, 10000, 30000, 999999, 1000000, 1234567}

Prices == {100 * a + c : a \in Amounts, c \in 0..MaxFraction}

InitPrice ==
  /\ cats = <<>>
  /\ nextId = 1
  /\ books = <<>>
  /\ nextBookId = 1
  /\ keywords = <<>>
  /\ nextKeywordId = 1
  /\ bookCategories = {}
  /\ bookKeywords = {}
  /\ \E x \in Prices :
       last = [Response("price", 0, Undef, Undef, 0, 0) EXCEPT !.price = x]
  /\ procs = <<>>
  /\ walk = NoWalk
  /\ ui = NoUi

\* plainBook.price = formatPrice(plainBook.price)
FormatPrice ==
  /\ last.op = "price"
  /\ last' = [last EXCEPT !.op = "formatPrice",
                          !.data = formatPrice(last.price)]
  /\ UNCHANGED <<dbVars, procs, walk, ui>>

\* parsePrice(price) of a formatted price
ParseFormattedPrice ==
  /\ last.op = "formatPrice"
  /\ last' = [last EXCEPT !.op = "parsePrice",
                          !.body = [NoBody EXCEPT !.price = Num(last.price)],
                          !.price = parsePriceText(last.data)]
  /\ UNCHANGED <<dbVars, procs, walk, ui>>

\* parsePrice(price) of a whole price typed as plain digits
ParsePlainPrice ==
  /\ last.op = "price"
  /\ last.price % 100 = 0
  /\ last' = [last EXCEPT !.op = "parsePrice",
                          !.body = [NoBody EXCEPT !.price = Num(last.price)],
                          !.data = DigitsOf(last.price \div 100),
                          !.price = parsePriceText(
                                      DigitsOf(last.price \div 100))]
  /\ UNCHANGED <<dbVars, procs, walk, ui>>

NextPrice == FormatPrice \/ ParseFormattedPrice \/ ParsePlainPrice

\* formatPrice and parsePrice applied to every price of Prices
SpecPrice == InitPrice /\ [][NextPrice]_vars

(* -------------------------- the category listing ---------------------- *)

\* the levels of children the include option of getAllCategories nests
IncludeDepth == 2

\* the place of a name in the order of the name column
NameRank(name) ==
  CASE name = "" -> 0
    [] name = "a" -> 1
    [] name = "b" -> 2
    [] name = "c" -> 3

\* order: [['name', 'ASC']]; rows of one name are taken by id
NameBefore(store, x, y) ==
  \/ NameRank(store[x].name) < NameRank(store[y].name)
  \/ NameRank(store[x].name) = NameRank(store[y].name) /\ x <= y

RECURSIVE OrderByName(_, _)
\* the ids of S in the order of their names
OrderByName(store, S) ==
  IF S = {} THEN <<>>
  ELSE LET first == CHOOSE x \in S : \A y \in S : NameBefore(store, x, y)
       IN <<first>> \o OrderByName(store, S \ {first})

\* a row as the response holds it; children is Absent when the query did
\* not include them
Entry(store, id, children) ==
  [id |-> id, name |-> store[id].name, parentId |-> store[id].parentId,
   children |-> children]

RECURSIVE IncludeChildren(_, _, _)
\* include: [{ model: Category, as: 'children', include: [...] }], written
\* out to depth levels
IncludeChildren(store, id, depth) ==
  IF depth = 0 THEN Absent
  ELSE LET order == OrderByName(store, {c \in DOMAIN store :
                                         store[c].parentId = id})
       IN List([i \in 1..Len(order) |->
                  Entry(store, order[i],
                        IncludeChildren(store, order[i], depth - 1))])

\* where.name = { [Op.like]: `%${search}%` } on one-letter names
NameLike(name, search) == search.s = "" \/ name = search.s

\* the rows the where clause selects
ListedIds(store, includeChildren, search) ==
  {c \in DOMAIN store :
     /\ includeChildren = Str("false") => store[c].parentId = NULL
     /\ Truthy(search) => NameLike(store[c].name, search)}

\* GET /api/categories; includeChildren defaults to 'true'
getAllCategories(query) ==
  LET includeChildren == IF query.includeChildren = Undef THEN Str("true")
                         ELSE query.includeChildren
      order == OrderByName(cats, ListedIds(cats, includeChildren,
                                           query.search))
      data == [i \in 1..Len(order) |->
                 Entry(cats, order[i],
                       IF includeChildren = Str("true")
                         THEN IncludeChildren(cats, order[i], IncludeDepth)
                         ELSE Absent)]
  IN /\ last' = [Response("getAllCategories", 0, Undef, Undef, 200, 0)
                  EXCEPT !.query = query, !.data = data]
     /\ UNCHANGED dbVars

\* every forest of n categories named "a" or "b"
NamedForests(n) ==
  {store \in [1..n -> [name : {"a", "b"}, parentId : 0..n]] :
     Acyclic(store)}

Queries ==
  [includeChildren : {Undef, Str("true"), Str("false")},
   search : {Undef, Str("a")}]

InitList ==
  /\ cats \in NamedForests(ListIds)
  /\ nextId = ListIds + 1
  /\ books = <<>>
  /\ nextBookId = 1
  /\ keywords = <<>>
  /\ nextKeywordId = 1
  /\ bookCategories = {}
  /\ bookKeywords = {}
  /\ last = NoResponse
  /\ procs = <<>>
  /\ walk = NoWalk
  /\ ui = NoUi

GetAllCategories ==
  /\ \E query \in Queries : getAllCategories(query)
  /\ UNCHANGED <<procs, walk, ui>>

NextList == GetAllCategories

\* listings of every forest of ListIds categories
SpecList == InitList /\ [][NextList]_vars

(* ----------------------- renaming and re-parenting -------------------- *)

\* the names and parentId values of the update bodies: a stored name and a
\* new one, no parent, null, every id as a number and one as a string
RenameNames == {Undef, Str("a"), Str("c")}

RenameParentValues ==
  {Undef, Null} \cup {Num(n) : n \in 1..RenameIds} \cup {NumStr(1)}

InitRename ==
  /\ cats \in NamedForests(RenameIds)
  /\ nextId = RenameIds + 1
  /\ books = <<>>
  /\ nextBookId = 1
  /\ keywords = <<>>
  /\ nextKeywordId = 1
  /\ bookCategories = {}
  /\ bookKeywords = {}
  /\ last = NoResponse
  /\ procs = <<>>
  /\ walk = NoWalk
  /\ ui = NoUi

RenameCategory == UpdateCategoryOver(RenameNames, RenameParentValues)

NextRename == RenameCategory

\* updateCategory requests, one after the other, on every forest of
\* RenameIds categories named "a" or "b"
SpecRename == InitRename /\ [][NextRename]_vars

(* ------------------------- deleting many books ----------------------- *)

\* the databases of SpecBulk: any of BulkBooks books, one category, and
\* any links of the stored books to it
BulkStores ==
  {d \in [books : UNION {[S -> {SeedBook}] : S \in SUBSET (1..BulkBooks)},
          bookCategories : SUBSET ((1..BulkBooks) \X {1})] :
     \A r \in d.bookCategories : r[1] \in DOMAIN d.books}

\* req.body.ids: missing, not an array, or up to BulkBooks ids, numbers
\* or a digit string, one of them above every stored id
BulkIds ==
  {Absent, NotArray}
    \cup {List(q) : q \in SeqsUpTo({Num(n) : n \in 1..(BulkBooks + 1)}
                                     \cup {NumStr(1)}, BulkBooks)}

InitBulk ==
  /\ cats = <<[name |-> "a", parentId |-> NULL]>>
  /\ nextId = 2
  /\ \E d \in BulkStores :
       /\ books = d.books
       /\ bookCategories = d.bookCategories
  /\ nextBookId = BulkBooks + 1
  /\ keywords = <<>>
  /\ nextKeywordId = 1
  /\ bookKeywords = {}
  /\ last = NoResponse
  /\ procs = <<>>
  /\ walk = NoWalk
  /\ ui = NoUi

BulkDeleteManyBooks ==
  /\ \E ids \in BulkIds : deleteManyBooks(ids, "none")
  /\ UNCHANGED <<procs, walk, ui>>

NextBulk == BulkDeleteManyBooks

\* deleteManyBooks requests, one after the other
SpecBulk == InitBulk /\ [][NextBulk]_vars

(* ------------------------ a list page in use -------------------------- *)

InitFilter ==
  /\ cats = <<>>
  /\ nextId = 1
  /\ books = <<>>
  /\ nextBookId = 1
  /\ keywords = <<>>
  /\ nextKeywordId = 1
  /\ bookCategories = {}
  /\ bookKeywords = {}
  /\ last = NoResponse
  /\ procs = <<>>
  /\ walk = NoWalk
  /\ ui = NoUi

\* useEffect(() => { fetchBooks(); ... }, [fetchBooks]) on mount
Mount ==
  /\ ~ui.mounted
  /\ ui' = fetchBooks([ui EXCEPT !.mounted = TRUE, !.event = "mount"])
  /\ UNCHANGED <<dbVars, last, procs, walk>>

\* the user changes a filter field
FilterChange ==
  /\ ui.mounted
  /\ ui.keys < MaxKeys
  /\ \E name \in FilterFields :
       \E value \in FieldValues(name) \ {ui.filters[name]} :
         ui' = handleFilterChange(ui, name, value)
  /\ UNCHANGED <<dbVars, last, procs, walk>>

\* a debounce timer runs out
TimerFires ==
  /\ \E name \in TextFields :
       /\ ui.timers[name] # <<>>
       /\ ui' = timerFires(ui, name)
  /\ UNCHANGED <<dbVars, last, procs, walk>>

FetchSucceeds ==
  /\ ui.loading
  /\ ui' = fetchSucceeds(ui)
  /\ UNCHANGED <<dbVars, last, procs, walk>>

FetchFails ==
  /\ ui.loading
  /\ ui' = fetchFails(ui)
  /\ UNCHANGED <<dbVars, last, procs, walk>>

NextFilter ==
  Mount \/ FilterChange \/ TimerFires \/ FetchSucceeds \/ FetchFails

\* a list page from mount on: filter changes, timers and responses in
\* every order
SpecFilter == InitFilter /\ [][NextFilter]_vars

(* ------------------ the traversal on an arbitrary store ---------------- *)

InitTrav ==
  /\ cats \in AnyStores(TravIds)
  /\ nextId = TravIds + 1
  /\ books = <<>>
  /\ nextBookId = 1
  /\ keywords = <<>>
  /\ nextKeywordId = 1
  /\ bookCategories = {}
  /\ bookKeywords = {}
  /\ \E id \in 1..TravIds :
       /\ last = Response("findAllChildrenIds", id, Undef, Undef, 0, 0)
       /\ walk = TravInit(id)
  /\ procs = <<>>
  /\ ui = NoUi

\* the next query of the traversal
WalkStep ==
  /\ ~TravDone(walk)
  /\ Len(walk.childIds) < MaxVisit
  /\ walk' = findChildren(cats, walk)
  /\ UNCHANGED <<dbVars, last, procs, ui>>

NextTrav == WalkStep

\* findAllChildrenIds(id) on every store, forest or not
SpecTrav == InitTrav /\ [][NextTrav]_vars

(* ------------------------------ properties ----------------------------- *)

\* C1: after any sequence of category create/update/delete and book
\* create/update requests, no stored category is reached from itself by
\* following parentId links.
StoredParentsAcyclic == Acyclic(cats)

\* a category that has a child was moved under another category, in a
\* store that also holds a category a book request created by name
ReparentedNextToBookCategory ==
  /\ last.op = "updateCategory"
  /\ last.status = 200
  /\ last.id \in DOMAIN cats
  /\ cats[last.id].parentId # NULL
  /\ \E c \in DOMAIN cats : cats[c].parentId = last.id
  /\ \E c \in DOMAIN cats : cats[c].name = "c"

\* the last request was updateCategory(id, parentId = X) on existing,
\* different categories id and X, with no name or a non-empty one
IsReparentRequest(resp, store) ==
  /\ resp.op = "updateCategory"
  /\ resp.id \in DOMAIN store
  /\ Truthy(resp.parentId)
  /\ parseInt(resp.parentId) \in DOMAIN store
  /\ parseInt(resp.parentId) # resp.id
  /\ resp.name = Undef \/ CategoryNameValid(resp.name)

\* C2: updateCategory(id, parentId = X), id and X existing and different,
\* answers 400 and changes nothing when X is a descendant of id at any
\* depth, and otherwise answers 200 and makes X the parent of id.
UpdateRefusesExactlyDescendants ==
  [][IsReparentRequest(last', cats) =>
       IF parseInt(last'.parentId) \in Descendants(cats, last'.id)
         THEN last'.status = 400 /\ cats' = cats
         ELSE /\ last'.status = 200
              /\ cats'[last'.id].parentId = parseInt(last'.parentId)]_vars

\* a grandchild of id was refused as its parent
GrandchildRefusedAsParent ==
  /\ IsReparentRequest(last, cats)
  /\ last.status = 400
  /\ cats[parseInt(last.parentId)].parentId # NULL
  /\ cats[cats[parseInt(last.parentId)].parentId].parentId = last.id

\* C3: whatever the interleaving of concurrent updateCategory requests,
\* once they have all answered the stored parent relation has no cycle.
ConcurrentUpdatesLeaveForest ==
  (\A p \in Procs : procs[p].pc \in {"idle", "done"}) => Acyclic(cats)

\* C4: deleteCategory(id) on an existing id answers 200 and removes id and
\* every id the descendant traversal of id lists just before the delete,
\* at all levels; none of them is found afterwards, and every other
\* category stays as it was.
DeleteRemovesExactlySubtree ==
  [][(last'.op = "deleteCategory" /\ last'.id \in DOMAIN cats) =>
       LET gone == {last'.id}
                     \cup Range(findAllChildrenIds(cats, last'.id))
       IN /\ last'.status = 200
          /\ \A c \in gone : CategoryFindByPk(cats', Num(c)) = NULL
          /\ DOMAIN cats' = DOMAIN cats \ gone
          /\ \A c \in DOMAIN cats' : cats'[c] = cats[c]]_vars

\* a delete removed a category, its only child and its grandchild
DeletedThreeLevels ==
  /\ last.op = "deleteCategory"
  /\ last.status = 200
  /\ last.affected = 1
  /\ Cardinality(last.removed) = 3

\* C5: a successful deleteCategory(id) reports the number of descendants
\* it removed, at every level, id itself not counted.
DeleteReportsDescendantCount ==
  (last.op = "deleteCategory" /\ last.status = 200) =>
    last.affected = Cardinality(last.removed \ {last.id})

\* C6: a finished findAllChildrenIds(id) has collected exactly the
\* categories reachable from id by one or more child links, each once and
\* never id itself; on a forest it collects fewer ids than there are rows.
TraversalCollectsDescendants ==
  /\ TravDone(walk) =>
       /\ Range(walk.childIds) = Descendants(cats, last.id)
       /\ NoDuplicates(walk.childIds)
       /\ last.id \notin Range(walk.childIds)
  /\ Acyclic(cats) => Len(walk.childIds) < Cardinality(DOMAIN cats)

\* a finished traversal that collected a descendant three levels down
CollectedGreatGrandchild ==
  /\ TravDone(walk)
  /\ \E c \in DOMAIN cats :
       /\ cats[c].parentId # NULL
       /\ cats[cats[c].parentId].parentId # NULL
       /\ cats[cats[cats[c].parentId].parentId].parentId = last.id
       /\ c \in Range(walk.childIds)

\* C7: findAllChildrenIds terminates on every stored parent relation, a
\* store with a parentId cycle included.  Every call of findChildren on a
\* category collects its children again, so a traversal that collects an
\* id a second time repeats that walk without end, and one that never
\* does stops after at most one call per row: the traversal terminates
\* exactly when no id is ever collected twice.
TraversalTerminates == NoDuplicates(walk.childIds)

\* C8: updateCategory(id, parentId = id) on an existing id answers 400 and
\* changes nothing, whatever the tree and whether parentId is a number or
\* a digit string.
SelfParentRefused ==
  [][(/\ last'.op = "updateCategory"
      /\ last'.id \in DOMAIN cats
      /\ parseInt(last'.parentId) = last'.id) =>
       last'.status = 400 /\ cats' = cats]_vars

\* a category that has a parent and a child was refused as its own
\* parent, once sent as a number and once as a digit string
SelfParentRefusedInsideTree ==
  /\ last.op = "updateCategory"
  /\ last.status = 400
  /\ last.id \in DOMAIN cats
  /\ last.parentId \in {Num(last.id), NumStr(last.id)}
  /\ cats[last.id].parentId # NULL
  /\ \E c \in DOMAIN cats : cats[c].parentId = last.id

\* C9: after any sequence of category and book requests no stored category
\* has an empty name, and updateCategory with name "" is refused and
\* changes nothing.
NamesNeverEmpty ==
  /\ [](\A c \in DOMAIN cats : cats[c].name # "")
  /\ [][(last'.op = "updateCategory" /\ last'.name = Str("")) =>
          last'.status # 200 /\ cats' = cats]_vars

\* an update to the empty name reached the model validation and failed
EmptyRenameRefused ==
  /\ last.op = "updateCategory"
  /\ last.name = Str("")
  /\ last.id \in DOMAIN cats
  /\ last.status = 500

\* C10: createCategory with an empty or missing name answers 400 and
\* leaves the stored categories unchanged.
CreateWithoutNameRefused ==
  [][(last'.op = "createCategory" /\ last'.name \in {Undef, Str("")}) =>
       last'.status = 400 /\ cats' = cats]_vars

\* a create with the empty name under an existing parent was refused
EmptyNameCreateRefused ==
  /\ last.op = "createCategory"
  /\ last.name = Str("")
  /\ Truthy(last.parentId)
  /\ parseInt(last.parentId) \in DOMAIN cats
  /\ last.status = 400

IsCreateRequest(resp, store) ==
  /\ resp.op = "createCategory"
  /\ CategoryNameValid(resp.name)
  /\ Truthy(resp.parentId) => parseInt(resp.parentId) \in DOMAIN store

DeleteMissingCategoryRefused ==
  [][(last'.op = "deleteCategory" /\ last'.id \notin DOMAIN cats) =>
       /\ last'.status = 404
       /\ last'.txn = <<"rollback">>
       /\ cats' = cats
       /\ bookCategories' = bookCategories
       /\ bookKeywords' = bookKeywords]_vars

\* the delete of a category that had been deleted before was refused
\* while a book is linked to a category and to a keyword
DeleteOfDeletedCategoryRefused ==
  /\ last.op = "deleteCategory"
  /\ last.status = 404
  /\ last.id < nextId
  /\ bookCategories # {}
  /\ bookKeywords # {}

\* the rows of all tables, without the auto-increment counters
Rows == <<cats, books, keywords, bookCategories, bookKeywords>>

\* C15: when a storage operation fails partway through createBook,
\* updateBook, deleteManyBooks or deleteCategory, the rows of all tables
\* are afterwards what they were before the request.
FailedRequestLeavesNoMutation ==
  [][(/\ last'.op \in {"createBook", "updateBook", "deleteManyBooks",
                       "deleteCategory"}
      /\ last'.fault # "none") => Rows' = Rows]_vars

\* C16: after any sequence of book and category create, update and delete
\* requests every row of BookCategories and of BookKeywords names a stored
\* book and a stored category or keyword, so the delete of a category with
\* its descendants, or of a book, has removed every join row that named a
\* removed row.
JoinRowsReferenceStoredRows ==
  /\ \A r \in bookCategories : r[1] \in DOMAIN books /\ r[2] \in DOMAIN cats
  /\ \A r \in bookKeywords :
       r[1] \in DOMAIN books /\ r[2] \in DOMAIN keywords

\* the delete of a category removed it, a descendant and a join row, and
\* the book that was linked is still stored
DeleteUnlinkedBook ==
  /\ last.op = "deleteCategory"
  /\ last.status = 200
  /\ Cardinality(last.removed) > 1
  /\ last.unlinked > 0
  /\ books # <<>>

\* the entries of a list are in ascending order of name
InNameOrder(entries) ==
  \A i \in 1..(Len(entries) - 1) :
    NameRank(entries[i].name) <= NameRank(entries[i + 1].name)

RECURSIVE NestsSubtree(_, _)
\* the entry holds all stored children of its category, in name order,
\* and each of them holds its subtree in the same way
NestsSubtree(store, entry) ==
  LET kids == IF entry.children.given THEN entry.children.items ELSE <<>>
  IN /\ {kids[i].id : i \in 1..Len(kids)}
          = {c \in DOMAIN store : store[c].parentId = entry.id}
     /\ InNameOrder(kids)
     /\ \A i \in 1..Len(kids) : NestsSubtree(store, kids[i])

\* C17: the list getAllCategories answers with is in ascending order of
\* name at every level; unless the query asks for roots only, every listed
\* category holds its children, they hold theirs, and so on down to the
\* leaves; with the roots-only filter (includeChildren = 'false') every
\* listed category has parentId null.
ListNestsWholeSubtrees ==
  last.op = "getAllCategories" =>
    /\ InNameOrder(last.data)
    /\ last.query.includeChildren # Str("false") =>
         \A i \in 1..Len(last.data) : NestsSubtree(cats, last.data[i])
    /\ last.query.includeChildren = Str("false") =>
         \A i \in 1..Len(last.data) : last.data[i].parentId = NULL

\* C18: parsePrice gives back the price formatPrice was applied to, for
\* every price of whole cents; formatPrice writes "Rp. ", the whole part in
\* groups of three digits with "." between them, "," and two digits, so
\* 10000 reads "Rp. 10.000,00"; and parsePrice of plain digits such as
\* "30000" is that number.  last.body.price is the price put in, last.data
\* the string parsed.
PriceRoundTrip ==
  /\ last.op = "parsePrice" => last.price = last.body.price.n
  /\ last.op = "formatPrice" =>
       /\ SubSeq(last.data, 1, 4) = <<"R", "p", ".", " ">>
       /\ last.data[Len(last.data) - 2] = ","
       /\ SelectSeq(SubSeq(last.data, 5, Len(last.data) - 3),
                    LAMBDA ch : ch # ".") = DigitsOf(last.price \div 100)
       /\ \A i \in 5..(Len(last.data) - 3) :
            last.data[i] = "." <=> (Len(last.data) - 2 - i) % 4 = 0
  /\ (last.op = "formatPrice" /\ last.price = 1000000) =>
       last.data = <<"R", "p", ".", " ", "1", "0", ".", "0", "0", "0", ",",
                     "0", "0">>

\* a price with two thousands separators and a fraction came back from
\* its formatted string
MillionsRoundTrip ==
  /\ last.op = "parsePrice"
  /\ last.data = <<"R", "p", ".", " ", "1", ".", "2", "3", "4", ".", "5",
                   "6", "7", ",", "8", "9">>
  /\ last.price = 123456789

\* the last request was createBook with its required fields, existing
\* category ids and keyword names, and no failing storage operation
IsCreateByIdsAndNames(resp, store) ==
  /\ resp.op = "createBook"
  /\ resp.fault = "none"
  /\ BookTextValid(resp.body.title)
  /\ BookTextValid(resp.body.description)
  /\ Truthy(resp.body.price) /\ BookPriceValid(parsePrice(resp.body.price))
  /\ BookStockValid(resp.body.stock)
  /\ BookTextValid(resp.body.publisher)
  /\ \A i \in 1..Len(resp.body.categories.items) :
       /\ resp.body.categories.items[i].t = "num"
       /\ resp.body.categories.items[i].n \in DOMAIN store
  /\ \A i \in 1..Len(resp.body.keywords.items) :
       /\ resp.body.keywords.items[i].t = "str"
       /\ resp.body.keywords.items[i].s # ""

\* the ids a list of number items holds
ItemIds(list) == {list.items[i].n : i \in 1..Len(list.items)}

\* the names a list of string items holds
ItemNames(list) == {list.items[i].s : i \in 1..Len(list.items)}

\* C19: createBook with all required fields, a list of existing category
\* ids and a list of keyword names answers 201 and adds one book; the
\* categories linked to it are exactly the listed ids, its keywords are
\* exactly the keywords of the listed names, each name has one keyword
\* row, the keywords stored before are unchanged, and the new keyword rows
\* are those of the names that were not stored.
CreateBookLinksListedRows ==
  [][IsCreateByIdsAndNames(last', cats) =>
       LET b == nextBookId
           names == ItemNames(last'.body.keywords)
       IN /\ last'.status = 201
          /\ DOMAIN books' = DOMAIN books \cup {b}
          /\ {r[2] : r \in {q \in bookCategories' : q[1] = b}}
               = ItemIds(last'.body.categories)
          /\ {keywords'[r[2]].name : r \in {q \in bookKeywords' : q[1] = b}}
               = names
          /\ \A k \in DOMAIN keywords : keywords'[k] = keywords[k]
          /\ \A n \in names :
               Cardinality({k \in DOMAIN keywords' :
                              keywords'[k].name = n}) = 1
          /\ {keywords'[k].name : k \in DOMAIN keywords' \ DOMAIN keywords}
               = names \ {keywords[k].name : k \in DOMAIN keywords}]_vars

\* the last request was updateBook on a stored book, every field absent
\* or a value the model accepts, categories absent or existing ids,
\* keywords absent or names, and no failing storage operation
IsPartialUpdate(resp, bookStore, store) ==
  /\ resp.op = "updateBook"
  /\ resp.fault = "none"
  /\ resp.id \in DOMAIN bookStore
  /\ resp.body.title = Undef \/ BookTextValid(resp.body.title)
  /\ resp.body.description = Undef \/ BookTextValid(resp.body.description)
  /\ resp.body.price = Undef \/ BookPriceValid(parsePrice(resp.body.price))
  /\ resp.body.stock = Undef \/ BookStockValid(resp.body.stock)
  /\ resp.body.publisher = Undef \/ BookTextValid(resp.body.publisher)
  /\ \A i \in 1..Len(resp.body.categories.items) :
       /\ resp.body.categories.items[i].t = "num"
       /\ resp.body.categories.items[i].n \in DOMAIN store
  /\ \A i \in 1..Len(resp.body.keywords.items) :
       /\ resp.body.keywords.items[i].t = "str"
       /\ resp.body.keywords.items[i].s # ""

\* the rows of a join table that belong to one book
RowsOf(rows, bookId) == {r \in rows : r[1] = bookId}

\* C20: updateBook on a stored book with some of title, description,
\* price, stock and publisher answers 200 and writes exactly the fields
\* the body holds, every other field and every other book keeping its
\* value; without categories (keywords) in the body the category
\* (keyword) links of the book stay as they were, and with a list they
\* become exactly the listed ids (the keywords of the listed names).
UpdateWritesGivenFieldsOnly ==
  [][IsPartialUpdate(last', books, cats) =>
       LET b == last'.id
           body == last'.body
       IN /\ last'.status = 200
          /\ DOMAIN books' = DOMAIN books
          /\ \A o \in DOMAIN books \ {b} : books'[o] = books[o]
          /\ books'[b].title = IF body.title = Undef THEN books[b].title
                               ELSE body.title.s
          /\ books'[b].description =
               IF body.description = Undef THEN books[b].description
               ELSE body.description.s
          /\ books'[b].price = IF body.price = Undef THEN books[b].price
                               ELSE body.price.n
          /\ books'[b].stock = IF body.stock = Undef THEN books[b].stock
                               ELSE body.stock.n
          /\ books'[b].publisher =
               IF body.publisher = Undef THEN books[b].publisher
               ELSE body.publisher.s
          /\ IF body.categories.given
               THEN {r[2] : r \in RowsOf(bookCategories', b)}
                      = ItemIds(body.categories)
               ELSE bookCategories' = bookCategories
          /\ IF body.keywords.given
               THEN {keywords'[r[2]].name : r \in RowsOf(bookKeywords', b)}
                      = ItemNames(body.keywords)
               ELSE bookKeywords' = bookKeywords]_vars

\* C21: updateCategory on a stored category with a body that holds only a
\* non-empty name answers 200, writes that name and leaves the parentId of
\* the category and every other category unchanged; with a body that holds
\* only parentId the name of the category stays what it was, whatever the
\* answer.
UpdateWritesOnlyTheFieldSent ==
  [][(last'.op = "updateCategory" /\ last'.id \in DOMAIN cats) =>
       /\ (CategoryNameValid(last'.name) /\ last'.parentId = Undef) =>
            /\ last'.status = 200
            /\ DOMAIN cats' = DOMAIN cats
            /\ cats'[last'.id].name = last'.name.s
            /\ cats'[last'.id].parentId = cats[last'.id].parentId
            /\ \A c \in DOMAIN cats \ {last'.id} : cats'[c] = cats[c]
       /\ (last'.name = Undef /\ last'.parentId # Undef) =>
            /\ DOMAIN cats' = DOMAIN cats
            /\ cats'[last'.id].name = cats[last'.id].name]_vars

\* a category that has a parent and a child took a name no other category
\* has, from a body without parentId
RenamedInsideTree ==
  /\ last.op = "updateCategory"
  /\ last.status = 200
  /\ last.name = Str("c")
  /\ last.parentId = Undef
  /\ cats[last.id].name = "c"
  /\ cats[last.id].parentId # NULL
  /\ \E c \in DOMAIN cats : cats[c].parentId = last.id
  /\ \A c \in DOMAIN cats \ {last.id} : cats[c].name # "c"

\* nothing is pending: no debounce timer and no request
Settled ==
  /\ ui.mounted
  /\ ~ui.loading
  /\ \A name \in TextFields : ui.timers[name] = <<>>

\* C22: once every debounce timer has fired and every request has
\* answered, the list shown, unless its fetch failed, is the answer to a
\* fetch made with the filter values the fields hold.
SettledListShowsLatestFilters ==
  (Settled /\ ui.shown.kind = "list") => ui.shown.params = ui.filters

\* C23: a change of a text field applies nothing and fetches nothing by
\* itself and leaves the timers of the other fields as they are; each
\* field has at most one timer pending, holding the value last typed, so
\* every run of changes ends in one timer that applies the last value and
\* sends at most one request: the timers fired and pending are as many as
\* the runs begun.
DebounceAppliesLastValueOnce ==
  /\ [](\A name \in TextFields :
          /\ Len(ui.timers[name]) <= 1
          /\ ui.timers[name] # <<>> =>
               Head(ui.timers[name]) = ui.filters[name])
  /\ [](ui.applies + Cardinality({name \in TextFields :
                                    ui.timers[name] # <<>>}) = ui.runs)
  /\ [][(ui'.event = "change" /\ ui'.field \in TextFields
         /\ ui'.keys = ui.keys + 1) =>
          /\ \A name \in TextFields \ {ui'.field} :
               ui'.timers[name] = ui.timers[name]
          /\ ui'.applied = ui.applied
          /\ ui'.fetches = ui.fetches]_vars
  /\ [][ui'.applies = ui.applies + 1 =>
          /\ ui'.applied = [ui.applied EXCEPT ![ui'.field] =
                              ui.filters[ui'.field]]
          /\ ui'.fetches \in {ui.fetches, ui.fetches + 1}]_vars

\* three changes of text fields came in two runs, so one run held two of
\* them; the timer of title fired once and applied the value the field
\* holds, and the timer of publisher is still pending
RunAppliedOnceNextToPendingTimer ==
  /\ ui.keys = 3
  /\ ui.filters["sortDir"] = "ASC"
  /\ ui.runs = 2
  /\ ui.applies = 1
  /\ ui.event = "timer"
  /\ ui.field = "title"
  /\ ui.applied["title"] = ui.filters["title"]
  /\ ui.timers["publisher"] # <<>>

\* the ids an ids array names
WantedIds(ids) == {parseInt(ids.items[i]) : i \in 1..Len(ids.items)}

\* C24: deleteManyBooks answers 400 when ids is missing, not an array or
\* empty, and 404 when no id of ids names a stored book, and removes no
\* row in both cases; otherwise it answers 200 and removes the stored
\* books named in ids with their join rows and no other book, deletedIds
\* are the ids that named a stored book, each once, notFoundIds the ids of
\* ids that named none, and deletedCount is the number of deletedIds.
DeleteManySplitsIds ==
  [][last'.op = "deleteManyBooks" =>
       LET ids == last'.ids
           existing == WantedIds(ids) \cap DOMAIN books
           data == last'.data
       IN IF ~ids.given \/ ~ids.array \/ ids.items = <<>>
            THEN last'.status = 400 /\ Rows' = Rows
          ELSE IF existing = {}
            THEN last'.status = 404 /\ Rows' = Rows
          ELSE /\ last'.status = 200
               /\ DOMAIN books' = DOMAIN books \ existing
               /\ \A b \in DOMAIN books' : books'[b] = books[b]
               /\ bookCategories' =
                    {r \in bookCategories : r[1] \notin existing}
               /\ Range(data.deletedIds) = existing
               /\ NoDuplicates(data.deletedIds)
               /\ {parseInt(data.notFoundIds[i]) :
                     i \in 1..Len(data.notFoundIds)}
                    = WantedIds(ids) \ existing
               /\ data.deletedCount = Len(data.deletedIds)]_vars

\* a delete of three ids removed two books, one of them linked to a
\* category, reported the third id as not found and left a book stored
DeletedTwoOfThreeIds ==
  /\ last.op = "deleteManyBooks"
  /\ last.status = 200
  /\ last.data.deletedCount = 2
  /\ Len(last.data.notFoundIds) = 1
  /\ last.unlinked > 0
  /\ books # <<>>

\* the list holds a number that names no stored row and no row the names
\* of the list can create
NamesMissingId(list, stored, counter) ==
  \E i \in 1..Len(list.items) :
    /\ list.items[i].t = "num"
    /\ list.items[i].n \notin stored
    /\ list.items[i].n >= counter + Len(list.items)

\* the last request was createBook with its required fields, or updateBook
\* on a stored book with the fields it holds valid, and no storage
\* operation failed
IsValidBookRequest(resp, db) ==
  /\ resp.fault = "none"
  /\ \/ /\ resp.op = "createBook"
        /\ BookTextValid(resp.body.title)
        /\ BookTextValid(resp.body.description)
        /\ Truthy(resp.body.price)
        /\ BookPriceValid(parsePrice(resp.body.price))
        /\ BookStockValid(resp.body.stock)
        /\ BookTextValid(resp.body.publisher)
     \/ /\ resp.op = "updateBook"
        /\ resp.id \in DOMAIN db.books
        /\ resp.body.title = Undef \/ BookTextValid(resp.body.title)
        /\ resp.body.description = Undef
             \/ BookTextValid(resp.body.description)
        /\ resp.body.price = Undef
             \/ BookPriceValid(parsePrice(resp.body.price))
        /\ resp.body.stock = Undef \/ BookStockValid(resp.body.stock)
        /\ resp.body.publisher = Undef \/ BookTextValid(resp.body.publisher)

\* such a request whose categories or keywords hold a number that names
\* no row
IsRequestWithMissingId(resp, db) ==
  /\ IsValidBookRequest(resp, db)
  /\ \/ NamesMissingId(resp.body.categories, DOMAIN db.cats, db.nextId)
     \/ NamesMissingId(resp.body.keywords, DOMAIN db.keywords,
                       db.nextKeywordId)

\* C25: a createBook or updateBook request whose categories or keywords
\* hold an id that names no row answers 404, and the rows of all tables
\* are afterwards what they were before the request.
MissingIdRefusedWithoutTrace ==
  [][IsRequestWithMissingId(last', DB) =>
       last'.status = 404 /\ Rows' = Rows]_vars

\* C26: createBook, updateBook, deleteManyBooks and deleteCategory call
\* exactly one of commit and rollback on their transaction, once, on every
\* path, a failing read after commit included.
TransactionFinishedOnce ==
  last.op \in {"createBook", "updateBook", "deleteManyBooks",
               "deleteCategory"} =>
    last.txn \in {<<"commit">>, <<"rollback">>}

\* C27: after any sequence of category create, update and delete requests
\* the parentId of every stored category is null or the id of a stored
\* category; a delete leaves no child that points at a removed id.
ParentsAreStored ==
  \A c \in DOMAIN cats :
    cats[c].parentId # NULL => cats[c].parentId \in DOMAIN cats

\* a category that had a child was deleted, its child went with it, and
\* another category is still stored
DeletedParentAndChild ==
  /\ last.op = "deleteCategory"
  /\ last.status = 200
  /\ last.affected = 1
  /\ Cardinality(last.removed) = 2
  /\ cats # <<>>

\* every entry of the list is a string
AllStrings(list) ==
  \A i \in 1..Len(list.items) : list.items[i].t \in {"str", "numstr"}

\* C28: in createBook and updateBook an entry of categories or keywords
\* that is a string is found or created by name, a string of digits and
\* the empty string included, so a request whose entries are all strings
\* never answers 404.
StringEntriesNeverRefused ==
  [][(/\ IsValidBookRequest(last', DB)
      /\ AllStrings(last'.body.categories)
      /\ AllStrings(last'.body.keywords)) => last'.status # 404]_vars

\* C29: updateCategory with parentId null on a stored category, with no
\* name or a non-empty one, answers 200 whatever the tree, makes the
\* category a root, and leaves the parentId of every other category, its
\* descendants included, unchanged.
DetachAlwaysSucceeds ==
  [][(/\ last'.op = "updateCategory"
      /\ last'.id \in DOMAIN cats
      /\ last'.parentId = Null
      /\ last'.name = Undef \/ CategoryNameValid(last'.name)) =>
       /\ last'.status = 200
       /\ DOMAIN cats' = DOMAIN cats
       /\ cats'[last'.id].parentId = NULL
       /\ \A c \in DOMAIN cats \ {last'.id} :
            cats'[c].parentId = cats[c].parentId
       /\ Descendants(cats', last'.id) = Descendants(cats, last'.id)]_vars

\* a category with a child is a root after an update with parentId null,
\* next to another root, and has kept its child
DetachedWithChild ==
  /\ last.op = "updateCategory"
  /\ last.status = 200
  /\ last.parentId = Null
  /\ cats[last.id].parentId = NULL
  /\ \E c \in DOMAIN cats : cats[c].parentId = last.id
  /\ \E c \in DOMAIN cats \ {last.id} : cats[c].parentId = NULL

====
